---- MODULE Spec2Model ----
(***************************************************************************)
(* The HTTP backend of main.py: two document kinds ("inquiry" and          *)
(* "application") stored through the persistence helper, and the static    *)
(* and diagnostic routes.  A handler reaches shared state through one      *)
(* storage call only, so concurrent requests are serialised by the order   *)
(* of their storage calls and each handler is one atomic action (Spec).    *)
(* SpecThreads runs the create handlers in threads instead, a step for     *)
(* the storage call and a step for the return, so that creates overlap.    *)
(*                                                                         *)
(* Strings whose content matters (identifiers, exception texts) are        *)
(* sequences of one-character strings; fixed texts are TLA+ strings.       *)
(* Python's None for an Optional[str] is the one-element sequence None,    *)
(* which is no character string.                                           *)
(***************************************************************************)
EXTENDS Integers, Sequences, FiniteSets, TLC

\* ---------------------------------------------------------------- bounds
MaxDocs == 3            \* documents the database accepts in one run
MaxOther == 9           \* collections the database may hold besides the two kinds

\* ------------------------------------------------------ program constants
DefaultLimit == 20
MinLimit == 1
MaxLimit == 100
MaxCollectionsShown == 10
MaxErrorChars == 50
ObjectIdHexLen == 24

\* ------------------------------------------------------------- strings
None == <<"None">>
HexChars == <<"0","1","2","3","4","5","6","7","8","9","a","b","c","d","e","f">>

IsStr(s) == \A i \in DOMAIN s : Len(s[i]) = 1

Take(s, n) == SubSeq(s, 1, IF Len(s) < n THEN Len(s) ELSE n)

Repeat(c, n) == [i \in 1..n |-> c]

RECURSIVE HexDigits(_, _)
HexDigits(n, width) ==
    IF width = 0 THEN <<>>
    ELSE Append(HexDigits(n \div 16, width - 1), HexChars[(n % 16) + 1])

\* The strings of the ObjectIds the database can assign, computed once.
ObjectIdStrings == [n \in 0..(MaxDocs + 1) |-> HexDigits(n, ObjectIdHexLen)]

\* str(ObjectId): the 24 lower-case hexadecimal digits of the 12-byte value.
StrObjectId(oid) == ObjectIdStrings[oid]

\* ----------------------------------------------------------- exceptions
ErrUnavailable == [type |-> "Exception", msg |-> <<"d","o","w","n">>]
ErrRejected == [type |-> "PyMongoError", msg |-> Repeat("x", MaxErrorChars + 2)]
StorageErrors == {ErrUnavailable, ErrRejected}
NoError == [type |-> "", msg |-> <<>>]

\* str(e)
StrExc(e) == e.msg

\* ------------------------------------------------------------- schemas
Kinds == {"inquiry", "application"}
SchemaFields == {"name", "email", "message"}
Payloads ==
    { [name |-> "A", email |-> "a@x.com", message |-> "hi"],
      [name |-> "B", email |-> "b@x.com", message |-> "yo"] }
NoPayload == [name |-> "", email |-> "", message |-> ""]

\* ------------------------------------------------------------ requests
\* Variant: the collection name copied from the other handler pair.
CopiedCollection == "inquiry"

InquiryCollection == "inquiry"
ApplicationCollection == "application"

ListRoutes == {"GET /api/inquiries", "GET /api/applications"}
CreateRoutes == {"POST /api/inquiries", "POST /api/applications"}
StaticRoutes == {"GET /", "GET /api/hello", "GET /test", "GET /schema"}

LimitInputs == {0, 1, 2, MaxLimit, MaxLimit + 1}

Idle == [route |-> "idle", payload |-> NoPayload, hasLimit |-> FALSE, limit |-> 0]

\* The requests of one route: a body for a create, an optional limit for a list.
Requests(route) ==
    IF route \in CreateRoutes
    THEN { [route |-> route, payload |-> p, hasLimit |-> FALSE, limit |-> 0]
             : p \in Payloads }
    ELSE IF route \in ListRoutes
    THEN { [route |-> route, payload |-> NoPayload, hasLimit |-> TRUE, limit |-> l]
             : l \in LimitInputs }
         \cup {[route |-> route, payload |-> NoPayload, hasLimit |-> FALSE, limit |-> 0]}
    ELSE {[route |-> route, payload |-> NoPayload, hasLimit |-> FALSE, limit |-> 0]}

\* os.getenv("DATABASE_URL"), os.getenv("DATABASE_NAME"): set or not.
Environments == [url : BOOLEAN, name : BOOLEAN]

\* The threads of the server's pool that run create handlers at once.
Threads == {"t1", "t2"}

\* How many other collections the database is seen to hold.
OtherCounts == {0, MaxOther}

VARIABLES
    db,          \* the database handle: "Database", or "None" when absent
    store,       \* collection name -> the sequence of its documents
    nextOid,     \* the next ObjectId the database assigns
    threads,     \* thread -> where it stands in a create handler, with its locals
    resp,        \* the response sent last
    issued,      \* history: the successful creates, in order
    listed       \* history: kind -> every <<_id, document>> pair ever listed

vars == <<db, store, nextOid, threads, resp, issued, listed>>

\* ------------------------------------------------- persistence helper
\* A stored document: the payload's fields and the _id the database assigned.
Doc(oid, payload) == ("_id" :> oid) @@ payload

\* create_document(kind, payload): the collection after insert_one.
create_document(kind, payload, oid) ==
    [store EXCEPT ![kind] = Append(@, Doc(oid, payload))]

\* get_documents(kind, {}, limit): up to limit documents in insertion order.
get_documents(kind, limit) == Take(store[kind], limit)

\* db.list_collection_names(): the kinds that hold a document, then the
\* n other collections of the database.
list_collection_names(n) ==
    (IF store["inquiry"] # <<>> THEN <<"inquiry">> ELSE <<>>)
    \o (IF store["application"] # <<>> THEN <<"application">> ELSE <<>>)
    \o [i \in 1..n |-> "c" \o ToString(i)]

\* The exception a storage call can raise now: no database without a handle,
\* a rejected operation with one.
Raisable == IF db = "None" THEN {ErrUnavailable} ELSE {ErrRejected}

\* ------------------------------------------------------------ responses
NoDiag ==
    [backend |-> "", database |-> [text |-> "", err |-> <<>>],
     database_url |-> "", database_name |-> "",
     connection_status |-> "", collections |-> <<>>]

Response(req, status) ==
    [req |-> req, status |-> status, id |-> None, message |-> "",
     detail |-> <<>>, docs |-> <<>>, diag |-> NoDiag,
     ops |-> 0, readLimit |-> 0, raised |-> NoError]

\* Query(20, ge=1, le=100)
LimitOf(req) == IF req.hasLimit THEN req.limit ELSE DefaultLimit

\* Variant: Query(20, ge=1) with the upper bound left out.
LimitValidNoUpper(l) == MinLimit <= l

LimitValid(l) == MinLimit <= l /\ l <= MaxLimit

\* Variant: the id answered is a field of the request, not the new id.
CreateResponseEcho(req, new_id, msg) ==
    [Response(req, 200) EXCEPT !.id = <<req.payload.name>>, !.message = msg,
                               !.ops = 1]

\* return {"id": new_id, "message": ...}
CreateResponse(req, new_id, msg) ==
    [Response(req, 200) EXCEPT !.id = new_id, !.message = msg, !.ops = 1]

\* Variant: a fixed empty detail instead of str(e).
ErrorResponseNoDetail(req, e) ==
    [Response(req, 500) EXCEPT !.ops = 1, !.raised = e]

\* raise HTTPException(status_code=500, detail=str(e))
ErrorResponse(req, e) ==
    [Response(req, 500) EXCEPT !.detail = StrExc(e), !.ops = 1, !.raised = e]

\* InquiryOut / ApplicationOut: the schema's fields and an optional id.
OutModel(m) ==
    [k \in SchemaFields \cup {"id"} |->
        IF k \in DOMAIN m THEN m[k] ELSE IF k = "id" THEN None ELSE ""]

\* Variant: the id read from the key "id", which no stored document has.
OutDocWrongKey(d) ==
    LET d_copy == [k \in DOMAIN d \ {"_id"} |-> d[k]]
        id == IF "id" \in DOMAIN d THEN StrObjectId(d["id"]) ELSE None
    IN  OutModel(("id" :> id) @@ d_copy)

\* One turn of the loop over docs: drop _id, set id to str(_id), build the model.
OutDoc(d) ==
    LET d_copy == [k \in DOMAIN d \ {"_id"} |-> d[k]]
        id == IF "_id" \in DOMAIN d THEN StrObjectId(d["_id"]) ELSE None
    IN  OutModel(("id" :> id) @@ d_copy)

\* Variant: the loop stops one document early.
ShapeDocsDropLast(docs) == [i \in 1..(Len(docs) - 1) |-> OutDoc(docs[i])]

\* Variant: out.insert(0, ...) instead of out.append(...).
ShapeDocsReversed(docs) ==
    [i \in DOMAIN docs |-> OutDoc(docs[Len(docs) + 1 - i])]

\* out = [] ; for d in docs: out.append(...)
ShapeDocs(docs) == [i \in DOMAIN docs |-> OutDoc(docs[i])]

\* Variant: an empty result answered as 404.
ListResponseNotFound(req, docs, limit) ==
    IF docs = <<>>
    THEN [Response(req, 404) EXCEPT !.ops = 1, !.readLimit = limit]
    ELSE [Response(req, 200) EXCEPT !.docs = ShapeDocs(docs), !.ops = 1,
                                    !.readLimit = limit]

ListResponse(req, docs, limit) ==
    [Response(req, 200) EXCEPT !.docs = ShapeDocs(docs), !.ops = 1,
                               !.readLimit = limit]

\* ------------------------------------------------------------- actions
\* The framework rejects a limit outside the Query bounds; no handler runs.
RejectLimit ==
    /\ \E route \in ListRoutes : \E req \in Requests(route) :
          /\ ~LimitValid(LimitOf(req))
          /\ resp' = Response(req, 422)
    /\ UNCHANGED <<db, store, nextOid, threads, issued, listed>>

read_root ==
    /\ \E req \in Requests("GET /") :
          resp' = [Response(req, 200) EXCEPT
                     !.message = "Illuminati Pvt Ltd backend is running"]
    /\ UNCHANGED <<db, store, nextOid, threads, issued, listed>>

hello ==
    /\ \E req \in Requests("GET /api/hello") :
          resp' = [Response(req, 200) EXCEPT
                     !.message = "Hello from the backend API!"]
    /\ UNCHANGED <<db, store, nextOid, threads, issued, listed>>

get_schema ==
    /\ \E req \in Requests("GET /schema") :
          resp' = [Response(req, 200) EXCEPT
                     !.message = "user, product, inquiry, application"]
    /\ UNCHANGED <<db, store, nextOid, threads, issued, listed>>

\* Variant: every collection name shown.
ShownCollectionsAll(collections) == collections

\* collections[:10]
ShownCollections(collections) == Take(collections, MaxCollectionsShown)

\* The body of test_database: listing is what list_collection_names returns,
\* raised the exception it raises instead (or NoError), env the environment.
TestDiagnostics(listing, raised, env) ==
    LET r0 == [backend |-> "Running",
               database |-> [text |-> "Not Available", err |-> <<>>],
               database_url |-> "None", database_name |-> "None",
               connection_status |-> "Not Connected", collections |-> <<>>]
        r1 == [r0 EXCEPT !.database = [text |-> "Available", err |-> <<>>],
                         !.database_url = "Configured",
                         !.database_name = "db.name",
                         !.connection_status = "Connected"]
        r2 == IF raised = NoError
              THEN [r1 EXCEPT
                      !.collections = ShownCollections(listing),
                      !.database = [text |-> "Connected & Working", err |-> <<>>]]
              ELSE [r1 EXCEPT
                      !.database = [text |-> "Connected but Error: ",
                                    err |-> Take(StrExc(raised), MaxErrorChars)]]
        r3 == IF db # "None" THEN r2
              ELSE [r0 EXCEPT !.database =
                       [text |-> "Available but not initialized", err |-> <<>>]]
    IN  [r3 EXCEPT
           !.database_url = IF env.url THEN "Set" ELSE "Not Set",
           !.database_name = IF env.name THEN "Set" ELSE "Not Set"]

test_database ==
    /\ \E req \in Requests("GET /test"), n \in OtherCounts,
          raised \in Raisable \cup {NoError}, env \in Environments :
          resp' = [Response(req, 200) EXCEPT
                     !.diag = TestDiagnostics(list_collection_names(n), raised, env),
                     !.ops = IF db # "None" THEN 1 ELSE 0,
                     !.raised = IF db # "None" THEN raised ELSE NoError]
    /\ UNCHANGED <<db, store, nextOid, threads, issued, listed>>

\* Variant: a create replaces the stored document with the same email.
CreateStorageCallUpsert(coll, payload, oid) ==
    [store EXCEPT ![coll] =
        Append(SelectSeq(@, LAMBDA d : d.email # payload.email),
               Doc(oid, payload))]

\* The storage call of a create handler: create_document(collection, payload).
CreateStorageCall(coll, payload, oid) == create_document(coll, payload, oid)

CreateHandler(req, coll, msg) ==
    \/ /\ db # "None"
       /\ nextOid <= MaxDocs
       /\ store' = CreateStorageCall(coll, req.payload, nextOid)
       /\ nextOid' = nextOid + 1
       /\ resp' = CreateResponse(req, StrObjectId(nextOid), msg)
       /\ issued' = Append(issued,
              [kind |-> coll, id |-> resp'.id, payload |-> req.payload])
       /\ UNCHANGED <<db, threads, listed>>
    \/ /\ \E e \in Raisable : resp' = ErrorResponse(req, e)
       /\ UNCHANGED <<db, store, nextOid, threads, issued, listed>>

create_inquiry ==
    \E req \in Requests("POST /api/inquiries") :
        CreateHandler(req, InquiryCollection,
                      "Inquiry received. Our team will contact you shortly.")

create_application ==
    \E req \in Requests("POST /api/applications") :
        CreateHandler(req, ApplicationCollection,
           "Application submitted. Our HR team will reach out if there's a fit.")

ListHandler(req, coll) ==
    LET limit == LimitOf(req) IN
    /\ LimitValid(limit)
    /\ \/ /\ db # "None"
          /\ LET docs == get_documents(coll, limit) IN
                /\ resp' = ListResponse(req, docs, limit)
                /\ listed' = [listed EXCEPT ![coll] = @ \cup
                      { <<docs[i]["_id"], resp'.docs[i]>> :
                            i \in DOMAIN docs \cap DOMAIN resp'.docs }]
       \/ /\ \E e \in Raisable :
                resp' = [ErrorResponse(req, e) EXCEPT !.readLimit = limit]
          /\ UNCHANGED listed
    /\ UNCHANGED <<db, store, nextOid, threads, issued>>

list_inquiries ==
    \E req \in Requests("GET /api/inquiries") : ListHandler(req, InquiryCollection)

list_applications ==
    \E req \in Requests("GET /api/applications") :
        ListHandler(req, ApplicationCollection)

\* ------------------------------------------------- creates in threads
IdleThread == [pc |-> "idle", req |-> Idle, new_id |-> None]

RouteCollection(route) ==
    IF route = "POST /api/inquiries" THEN InquiryCollection
    ELSE ApplicationCollection

RouteMessage(route) ==
    IF route = "POST /api/inquiries"
    THEN "Inquiry received. Our team will contact you shortly."
    ELSE "Application submitted. Our HR team will reach out if there's a fit."

\* new_id = create_document(kind, payload) in thread t: the insert commits and
\* the thread holds new_id, or the call raises and the handler answers 500.
ThreadCall(t) ==
    /\ threads[t].pc = "idle"
    /\ \E route \in CreateRoutes : \E req \in Requests(route) :
          \/ /\ db # "None"
             /\ nextOid <= MaxDocs
             /\ store' = CreateStorageCall(RouteCollection(route), req.payload,
                                           nextOid)
             /\ nextOid' = nextOid + 1
             /\ threads' = [threads EXCEPT ![t] =
                    [pc |-> "return", req |-> req,
                     new_id |-> StrObjectId(nextOid)]]
             /\ UNCHANGED <<db, resp, issued, listed>>
          \/ /\ \E e \in Raisable : resp' = ErrorResponse(req, e)
             /\ UNCHANGED <<db, store, nextOid, threads, issued, listed>>

\* return {"id": new_id, "message": ...} in thread t.
ThreadReturn(t) ==
    /\ threads[t].pc = "return"
    /\ LET req == threads[t].req IN
          /\ resp' = CreateResponse(req, threads[t].new_id,
                                    RouteMessage(req.route))
          /\ issued' = Append(issued,
                 [kind |-> RouteCollection(req.route), id |-> resp'.id,
                  payload |-> req.payload])
    /\ threads' = [threads EXCEPT ![t] = IdleThread]
    /\ UNCHANGED <<db, store, nextOid, listed>>

NoResponse == Response(Idle, 0)

Init ==
    /\ db \in {"Database", "None"}
    /\ store = [k \in Kinds |-> <<>>]
    /\ nextOid = 1
    /\ threads = [t \in Threads |-> IdleThread]
    /\ resp = NoResponse
    /\ issued = <<>>
    /\ listed = [k \in Kinds |-> {}]

Next ==
    \/ RejectLimit
    \/ read_root
    \/ hello
    \/ test_database
    \/ create_inquiry
    \/ list_inquiries
    \/ create_application
    \/ list_applications
    \/ get_schema

Spec == Init /\ [][Next]_vars

NextThreads ==
    \E t \in Threads :
        \/ ThreadCall(t)
        \/ ThreadReturn(t)

SpecThreads == Init /\ [][NextThreads]_vars

\* ------------------------------------------------------------- properties
\* The kind a route is documented to serve.
RouteKind(route) ==
    IF route \in {"POST /api/inquiries", "GET /api/inquiries"}
    THEN "inquiry" ELSE "application"

\* The successful creates of one kind, in the order they were answered.
IssuedOf(k) == SelectSeq(issued, LAMBDA r : r.kind = k)

NonId(d) == [f \in DOMAIN d \ {"id", "_id"} |-> d[f]]

Min(a, b) == IF a < b THEN a ELSE b

IsPrefix(s, t) == Len(s) <= Len(t) /\ SubSeq(t, 1, Len(s)) = s

IsNonEmptyStr(s) == s # None /\ IsStr(s) /\ Len(s) > 0

ListedOk == resp.req.route \in ListRoutes /\ resp.status = 200

\* C1: after a create of a kind has succeeded with payload p and id i, a
\* list of that kind that answers with a limit no smaller than the number of
\* stored documents holds a document whose id is i, a non-empty string, and
\* whose other fields equal p.
C1_CreateThenListed ==
    LET k == RouteKind(resp.req.route) IN
    (ListedOk /\ resp.readLimit >= Len(store[k])) =>
        \A j \in DOMAIN issued :
            issued[j].kind = k =>
                \E i \in DOMAIN resp.docs :
                    /\ resp.docs[i].id = issued[j].id
                    /\ IsNonEmptyStr(resp.docs[i].id)
                    /\ NonId(resp.docs[i]) = issued[j].payload

C1_Witness ==
    /\ ListedOk
    /\ resp.readLimit >= Len(store[RouteKind(resp.req.route)])
    /\ Len(IssuedOf(RouteKind(resp.req.route))) >= 2
    /\ Len(issued) > Len(IssuedOf(RouteKind(resp.req.route)))

\* C2: no two successful creates return the same identifier, whatever their
\* payloads and kinds and however their handlers overlap: the ids answered
\* so far and the ids held by threads about to answer are pairwise distinct.
C2_DistinctIds ==
    /\ \A i, j \in DOMAIN issued : i # j => issued[i].id # issued[j].id
    /\ \A t \in Threads : threads[t].pc = "return" =>
          /\ IsNonEmptyStr(threads[t].new_id)
          /\ \A i \in DOMAIN issued : issued[i].id # threads[t].new_id
          /\ \A u \in Threads \ {t} : threads[u].new_id # threads[t].new_id
    /\ \A i \in DOMAIN issued : resp.id = issued[i].id => i = Len(issued)

\* Two creates with the same payload overlapped and were answered in the
\* opposite order of their inserts.
C2_Witness ==
    \E i \in DOMAIN issued :
        /\ i + 1 \in DOMAIN issued
        /\ issued[i].kind = issued[i + 1].kind
        /\ issued[i].payload = issued[i + 1].payload
        /\ store[issued[i].kind][1]["_id"] = 1
        /\ issued[i].id = StrObjectId(2)
        /\ issued[i + 1].id = StrObjectId(1)

\* C3: when the storage call of a create or list handler raises, the answer
\* is a 500 whose detail is str(e), with no success body, after exactly one
\* storage call, and the stored documents are unchanged.
C3_RaisedGives500 ==
    (resp.req.route \in CreateRoutes \cup ListRoutes /\ resp.raised # NoError) =>
        /\ resp.status = 500
        /\ resp.detail = resp.raised.msg
        /\ resp.id = None /\ resp.message = "" /\ resp.docs = <<>>
        /\ resp.ops = 1

C3_FailureKeepsStore ==
    (resp'.req.route \in CreateRoutes \cup ListRoutes /\ resp'.raised # NoError) =>
        store' = store /\ issued' = issued

C3_StorageErrors == []C3_RaisedGives500 /\ [][C3_FailureKeepsStore]_vars

C3_Witness ==
    /\ resp.req.route \in CreateRoutes
    /\ resp.raised = ErrRejected
    /\ Len(issued) >= 1

\* C4: a list with limit L answers with the first min(L, n) of the n
\* documents of its kind, in the order their creates were committed.
C4_FirstInInsertionOrder ==
    LET k == RouteKind(resp.req.route)
        L == IF resp.req.hasLimit THEN resp.req.limit ELSE 20
        made == IssuedOf(k)
    IN  ListedOk =>
            /\ Len(resp.docs) <= L
            /\ Len(resp.docs) = Min(L, Len(made))
            /\ \A i \in DOMAIN resp.docs :
                  /\ resp.docs[i].id = made[i].id
                  /\ NonId(resp.docs[i]) = made[i].payload

C4_Witness ==
    /\ ListedOk
    /\ resp.req.hasLimit /\ resp.req.limit = 2
    /\ Len(IssuedOf(RouteKind(resp.req.route))) = 3
    /\ resp.docs[1] # resp.docs[2]

\* C5: get_documents is only called with a limit in 1..100; a list request
\* with a limit outside 1..100 is answered 422 with no storage call, and one
\* without a limit reads with 20.
C5_LimitBounds ==
    resp.req.route \in ListRoutes =>
        IF resp.req.hasLimit /\ (resp.req.limit < 1 \/ resp.req.limit > 100)
        THEN resp.status = 422 /\ resp.ops = 0 /\ resp.readLimit = 0
        ELSE /\ resp.ops = 1
             /\ resp.readLimit \in 1..100
             /\ resp.readLimit = (IF resp.req.hasLimit THEN resp.req.limit ELSE 20)

C5_Witness ==
    /\ resp.req.route \in ListRoutes
    /\ resp.req.hasLimit /\ resp.req.limit = 101
    /\ resp.status = 422
    /\ store["inquiry"] # <<>> /\ store["application"] # <<>>

\* C6: stored documents are never changed or removed, every listing of a
\* document shows the same id and fields, and a document listed once is
\* listed again whenever the limit covers its position.
C6_ListingsAgree ==
    \A k \in Kinds :
        /\ \A a, b \in listed[k] : a[1] = b[1] => a[2] = b[2]
        /\ \A a \in listed[k] :
              \E i \in DOMAIN store[k] :
                  /\ store[k][i]["_id"] = a[1]
                  /\ (ListedOk /\ RouteKind(resp.req.route) = k
                        /\ i <= resp.readLimit)
                     => (i \in DOMAIN resp.docs /\ resp.docs[i] = a[2])

C6_AppendOnly == \A k \in Kinds : IsPrefix(store[k], store'[k])

C6_StableDocuments == []C6_ListingsAgree /\ [][C6_AppendOnly]_vars

C6_Witness ==
    /\ ListedOk
    /\ Len(resp.docs) = 1
    /\ Cardinality(listed[RouteKind(resp.req.route)]) = 3

\* C7: every listed document has the schema's fields and id only (no _id),
\* and its id is the string form of the stored _id: 24 hexadecimal digits,
\* never None.
C7_IdIsStringOfOid ==
    LET k == RouteKind(resp.req.route) IN
    ListedOk =>
        \A i \in DOMAIN resp.docs :
            /\ DOMAIN resp.docs[i] = {"name", "email", "message", "id"}
            /\ resp.docs[i].id # None
            /\ IsStr(resp.docs[i].id)
            /\ Len(resp.docs[i].id) = 24
            /\ i \in DOMAIN store[k]
            /\ resp.docs[i].id = StrObjectId(store[k][i]["_id"])

C7_Witness == ListedOk /\ Len(resp.docs) = 3

\* C8: GET /test always answers 200 with the diagnostic object: without a
\* database handle it reports "not initialized", "Not Connected" and no
\* collections; when listing the collections raises it reports the error in
\* the database field; collections holds at most 10 names.
C8_TestDiagnostic ==
    resp.req.route = "GET /test" =>
        /\ resp.status = 200
        /\ resp.diag.backend = "Running"
        /\ Len(resp.diag.collections) <= 10
        /\ db = "None" =>
              /\ resp.diag.database.text = "Available but not initialized"
              /\ resp.diag.connection_status = "Not Connected"
              /\ resp.diag.collections = <<>>
        /\ (db # "None" /\ resp.raised # NoError) =>
              /\ resp.diag.database.text = "Connected but Error: "
              /\ IsPrefix(resp.diag.database.err, resp.raised.msg)
              /\ resp.diag.collections = <<>>
        /\ (db # "None" /\ resp.raised = NoError) =>
              resp.diag.database.text = "Connected & Working"

C8_Witness ==
    /\ resp.req.route = "GET /test"
    /\ db # "None" /\ resp.raised = NoError
    /\ Len(resp.diag.collections) = 10
    /\ store["inquiry"] # <<>> /\ store["application"] # <<>>

\* C9: a list of a kind that holds no document, with a limit in 1..100 and a
\* storage read that does not raise, answers 200 with an empty sequence.
C9_EmptyListIsSuccess ==
    LET k == RouteKind(resp.req.route) IN
    (/\ resp.req.route \in ListRoutes
     /\ resp.readLimit \in 1..100
     /\ resp.raised = NoError
     /\ Len(IssuedOf(k)) = 0) =>
        resp.status = 200 /\ resp.docs = <<>>

C9_Witness ==
    /\ resp.req.route = "GET /api/applications"
    /\ resp.status = 200 /\ resp.readLimit = 100
    /\ IssuedOf("application") = <<>>
    /\ Len(IssuedOf("inquiry")) >= 1

\* C10: a request makes at most one storage call; a successful create of a
\* kind appends exactly one document to that kind's collection and leaves
\* the other collection alone; every other request leaves both unchanged.
C10_Frame ==
    LET r == resp'
        created(k) == r.req.route \in CreateRoutes /\ r.status = 200
                        /\ RouteKind(r.req.route) = k
    IN  /\ r.ops <= 1
        /\ \A k \in Kinds :
              IF created(k)
              THEN /\ Len(store'[k]) = Len(store[k]) + 1
                   /\ IsPrefix(store[k], store'[k])
                   /\ NonId(store'[k][Len(store'[k])]) = r.req.payload
              ELSE store'[k] = store[k]

C10_OwnKindOnly == [][C10_Frame]_vars

C10_Witness ==
    /\ resp.req.route = "POST /api/applications" /\ resp.status = 200
    /\ Len(store["inquiry"]) >= 1 /\ Len(store["application"]) >= 2

====
